---- MODULE Spec2Model ----
(***************************************************************************)
(* Model of RegexLearningGenerator.test_pattern (src/generate.py, lines    *)
(* 31-123): compile the pattern, split the test text into lines, scan each *)
(* line with finditer and render it, run findall over the text, and turn   *)
(* any exception into a single error block.                                *)
(*                                                                         *)
(* Text is a sequence of one-character strings.  results_html is kept as   *)
(* the sequence of the <div> blocks the code appends; the fixed markup of  *)
(* a block is its "kind", the values embedded in it are character          *)
(* sequences produced by Escape (html.escape).                             *)
(***************************************************************************)
EXTENDS Integers, Sequences, FiniteSets, TLC

\* ------------------------------------------------------------------ bounds
\* Every text over Alphabet of at most MaxLen characters is an input.
MaxLen == 4

\* str(all_matches)[:200], len(str(all_matches)) > 200
PreviewLimit == 200

NL == "\n"
Alphabet == {"a", "<", " ", NL}

\* the characters str.strip() removes and \s matches (those of Alphabet)
Whitespace == {" ", NL}

\* ------------------------------------------------------------ text helpers
RECURSIVE SeqsUpTo(_)
SeqsUpTo(n) ==
    IF n = 0 THEN {<< >>}
    ELSE LET shorter == SeqsUpTo(n - 1)
         IN  shorter \cup {Append(s, c) : s \in {t \in shorter : Len(t) = n - 1}, c \in Alphabet}

Rep(c, n) == [x \in 1..n |-> c]

\* ''.join(ss), halving so that the recursion stays shallow
RECURSIVE Flatten(_)
Flatten(ss) ==
    IF Len(ss) = 0 THEN << >>
    ELSE IF Len(ss) = 1 THEN ss[1]
    ELSE LET h == Len(ss) \div 2
         IN  Flatten(SubSeq(ss, 1, h)) \o Flatten(SubSeq(ss, h + 1, Len(ss)))

Take(s, n) == SubSeq(s, 1, IF Len(s) < n THEN Len(s) ELSE n)

\* Python slice s[a:b] with 0-based half-open offsets, 0 <= a
Slice(s, a, b) == SubSeq(s, a + 1, b)

\* str.lstrip() / str.rstrip() / str.strip()
RECURSIVE LStrip(_)
LStrip(s) == IF s # << >> /\ Head(s) \in Whitespace THEN LStrip(Tail(s)) ELSE s

RECURSIVE RStrip(_)
RStrip(s) ==
    IF s # << >> /\ s[Len(s)] \in Whitespace THEN RStrip(SubSeq(s, 1, Len(s) - 1)) ELSE s

\* test_input.strip()
Strip(s) == LStrip(RStrip(s))

\* str.split('\n'): always at least one piece, empty pieces kept
RECURSIVE SplitFrom(_, _, _)
SplitFrom(s, pos, cur) ==
    IF pos > Len(s) THEN <<cur>>
    ELSE IF s[pos] = NL THEN <<cur>> \o SplitFrom(s, pos + 1, << >>)
    ELSE SplitFrom(s, pos + 1, Append(cur, s[pos]))

Split(s) == SplitFrom(s, 1, << >>)

\* '\n'.join(lines)
RECURSIVE JoinLines(_)
JoinLines(ls) ==
    IF Len(ls) = 0 THEN << >>
    ELSE IF Len(ls) = 1 THEN ls[1]
    ELSE ls[1] \o <<NL>> \o JoinLines(Tail(ls))

\* html.escape(s) with quote=True, character by character
EscapeChar(c) ==
    CASE c = "&"  -> <<"&", "a", "m", "p", ";">>
      [] c = "<"  -> <<"&", "l", "t", ";">>
      [] c = ">"  -> <<"&", "g", "t", ";">>
      [] c = "\"" -> <<"&", "q", "u", "o", "t", ";">>
      [] c = "'"  -> <<"&", "#", "x", "2", "7", ";">>
      [] OTHER    -> <<c>>

Escape(s) == Flatten([k \in 1..Len(s) |-> EscapeChar(s[k])])

\* ------------------------------------------------------- the regex engine
\* A compiled pattern is a tree of tuples:
\*   <<"lit", c>>  <<"ws">>  <<"bol">>  <<"eol">>
\*   <<"cat", x, y>>  <<"alt", x, y>>  <<"opt", x>>  <<"star", x>>  <<"grp", n, x>>
\* A group value is Present(s) or Absent (Python: a str or None).
Absent == [present |-> FALSE, val |-> << >>]
Present(s) == [present |-> TRUE, val |-> s]

Lit(c) == <<"lit", c>>
Cat(x, y) == <<"cat", x, y>>
Alt(x, y) == <<"alt", x, y>>
Opt(x) == <<"opt", x>>
Star(x) == <<"star", x>>
Grp(n, x) == <<"grp", n, x>>

NoneText == <<"N", "o", "n", "e">>

\* re.compile(pattern, re.MULTILINE) on the pattern sources of the model:
\* ok = FALSE is re.error, msg its text.
Compile(src) ==
    LET P(root, n, names) == [ok |-> TRUE, root |-> root, ngroups |-> n, names |-> names, msg |-> << >>]
    IN  CASE src = "a"           -> P(Lit("a"), 0, << >>)
          [] src = "a*"          -> P(Star(Lit("a")), 0, << >>)
          [] src = "a+"          -> P(Cat(Lit("a"), Star(Lit("a"))), 0, << >>)
          [] src = "\\s"         -> P(<<"ws">>, 0, << >>)
          [] src = "^"           -> P(<<"bol">>, 0, << >>)
          [] src = "<$"          -> P(Cat(Lit("<"), <<"eol">>), 0, << >>)
          [] src = "(a)|(<)"     -> P(Alt(Grp(1, Lit("a")), Grp(2, Lit("<"))), 2, << >>)
          [] src = "(a)?<"       -> P(Cat(Opt(Grp(1, Lit("a"))), Lit("<")), 1, << >>)
          [] src = "(?P<x>a*)<"  -> P(Cat(Grp(1, Star(Lit("a"))), Lit("<")), 1, << <<"x", 1>> >>)
          [] src = "(?P<x>a*)(?P<y><)?" ->
                P(Cat(Grp(1, Star(Lit("a"))), Opt(Grp(2, Lit("<")))), 2,
                  << <<"x", 1>>, <<"y", 2>> >>)
          [] src = "(None)|(a)"  ->
                P(Alt(Grp(1, Cat(Lit("N"), Cat(Lit("o"), Cat(Lit("n"), Lit("e"))))),
                      Grp(2, Lit("a"))), 2, << >>)
          [] src = "("           ->
                [ok |-> FALSE, root |-> << >>, ngroups |-> 0, names |-> << >>,
                 msg |-> <<"missing ), unterminated subpattern at position 0">>]

PatternSources ==
    {"a", "a*", "a+", "\\s", "^", "<$", "(a)|(<)", "(a)?<", "(?P<x>a*)<",
     "(?P<x>a*)(?P<y><)?", "(None)|(a)", "("}

\* All ways the node matches text starting at 1-based position pos, as the
\* backtracking engine tries them (first = the one it returns), each with
\* the position after the match and the group values.
RECURSIVE M(_, _, _, _)
M(node, text, pos, gs) ==
    LET here == <<[e |-> pos, g |-> gs]>>
        t == node[1]
    IN  CASE t = "lit" ->
               IF pos <= Len(text) /\ text[pos] = node[2]
               THEN <<[e |-> pos + 1, g |-> gs]>> ELSE << >>
          [] t = "ws" ->
               IF pos <= Len(text) /\ text[pos] \in Whitespace
               THEN <<[e |-> pos + 1, g |-> gs]>> ELSE << >>
          [] t = "bol" -> IF pos = 1 \/ text[pos - 1] = NL THEN here ELSE << >>
          [] t = "eol" -> IF pos = Len(text) + 1 \/ text[pos] = NL THEN here ELSE << >>
          [] t = "cat" ->
               LET first == M(node[2], text, pos, gs)
               IN  Flatten([k \in 1..Len(first) |-> M(node[3], text, first[k].e, first[k].g)])
          [] t = "alt" -> M(node[2], text, pos, gs) \o M(node[3], text, pos, gs)
          [] t = "opt" -> M(node[2], text, pos, gs) \o here
          [] t = "star" ->
               LET first == M(node[2], text, pos, gs)
               IN  Flatten([k \in 1..Len(first) |->
                              IF first[k].e > pos
                              THEN M(node, text, first[k].e, first[k].g) ELSE << >>])
                   \o here
          [] t = "grp" ->
               LET inner == M(node[3], text, pos, gs)
               IN  [k \in 1..Len(inner) |->
                      [e |-> inner[k].e,
                       g |-> [inner[k].g EXCEPT ![node[2]] =
                                 Present(SubSeq(text, pos, inner[k].e - 1))]]]

\* Where the scan for the next match resumes after a match with span (s, e)
ResumeAt(s, e) == e

\* Pattern.finditer(text): the matches left to right as records
\* [s, e, g] with the 0-based half-open span and the group values.  After an
\* empty match the next match may not be empty at the same position.
RECURSIVE Scan(_, _, _, _, _)
Scan(cp, text, from, start, mustAdvance) ==
    IF start > Len(text) + 1 THEN << >>
    ELSE LET all == M(cp.root, text, start, [n \in 1..cp.ngroups |-> Absent])
             ok  == SelectSeq(all, LAMBDA r : ~(mustAdvance /\ start = from /\ r.e = start))
         IN  IF ok = << >> THEN Scan(cp, text, from, start + 1, mustAdvance)
             ELSE LET r == Head(ok)
                      next == ResumeAt(start, r.e)
                  IN  <<[s |-> start - 1, e |-> r.e - 1, g |-> r.g]>>
                      \o Scan(cp, text, next, next, r.e = start)

FindIter(cp, text) == Scan(cp, text, 1, 1, FALSE)

\* match.group(0)
Group0(text, m) == Slice(text, m.s, m.e)

\* Pattern.findall(text): group 0 without groups, group 1 with one group,
\* the tuple of all groups with several; a group that did not participate
\* is the empty string.
FindAll(cp, text) ==
    LET ms == FindIter(cp, text)
    IN  [k \in 1..Len(ms) |->
           IF cp.ngroups = 0 THEN [tuple |-> FALSE, vals |-> <<Group0(text, ms[k])>>]
           ELSE [tuple |-> cp.ngroups > 1,
                 vals  |-> [n \in 1..cp.ngroups |-> ms[k].g[n].val]]]

\* ------------------------------------------------- str(all_matches)
Contains(s, c) == \E k \in 1..Len(s) : s[k] = c

\* repr of a str: single quotes unless the text has ' and no "
ReprStr(s) ==
    LET q == IF Contains(s, "'") /\ ~Contains(s, "\"") THEN "\"" ELSE "'"
        ch(c) == CASE c = NL   -> <<"\\", "n">>
                   [] c = "\\" -> <<"\\", "\\">>
                   [] c = q    -> <<"\\", q>>
                   [] OTHER    -> <<c>>
    IN  <<q>> \o Flatten([k \in 1..Len(s) |-> ch(s[k])]) \o <<q>>

\* ', '.join(parts)
RECURSIVE CommaJoin(_)
CommaJoin(parts) ==
    IF Len(parts) = 0 THEN << >>
    ELSE IF Len(parts) = 1 THEN parts[1]
    ELSE parts[1] \o <<",", " ">> \o CommaJoin(Tail(parts))

\* repr of one findall item: a str, or a tuple of two or more str
ReprItem(it) ==
    IF it.tuple
    THEN <<"(">> \o CommaJoin([k \in 1..Len(it.vals) |-> ReprStr(it.vals[k])]) \o <<")">>
    ELSE ReprStr(it.vals[1])

\* str(all_matches)
StrList(items) ==
    <<"[">> \o CommaJoin([k \in 1..Len(items) |-> ReprItem(items[k])]) \o <<"]">>

\* --------------------------------------------------------------- rendering
\* the highlight marker wrapped around a match (one token each)
MarkOpen == "<span style=\"background-color: #a5d6a7; font-weight: bold; border-radius: 3px; padding: 0 2px;\">"
MarkClose == "</span>"

\* variant: an absent group shown as the empty text
GroupTextEmpty(g) == g.val

\* val = group if group is not None else "None"
GroupText(g) == IF g.present THEN g.val ELSE NoneText

\* f'{j}: "{html.escape(val)}"' for the numbered groups of a match
GroupItems(m) ==
    [j \in 1..Len(m.g) |-> [label |-> j, text |-> Escape(GroupText(m.g[j]))]]

\* f'{name}: "{html.escape(val)}"' for match.groupdict().items()
NamedItems(cp, m) ==
    [n \in 1..Len(cp.names) |->
        [label |-> cp.names[n][1], text |-> Escape(GroupText(m.g[cp.names[n][2]]))]]

\* the "Match k" block of one match
Detail(cp, line, ms, n) ==
    [k      |-> n,
     match  |-> Escape(Group0(line, ms[n])),
     groups |-> GroupItems(ms[n]),
     named  |-> NamedItems(cp, ms[n])]

\* one step of the highlight walk: text since the last match, then the match
WalkAppend(hl, line, last, m) ==
    hl \o Escape(Slice(line, last, m.s))
       \o <<MarkOpen>> \o Escape(Slice(line, m.s, m.e)) \o <<MarkClose>>

\* variant: last_idx set one past the end of the match
WalkLastIdxPast(m) == m.e + 1

\* last_idx = e
WalkLastIdx(m) == m.e

\* variant: the text after the last match left out
WalkRestDropped(hl, line, last) == hl

\* highlighted_line += html.escape(line[last_idx:])
WalkRest(hl, line, last) == hl \o Escape(Slice(line, last, Len(line)))

\* variant: enumerate(test_lines) without the start of 1
LineNumberFromZero(idx) == idx - 1

\* enumerate(test_lines, 1): the number shown for the idx-th line
LineNumber(idx) == idx

MatchBlock(n, hl, details) ==
    [class |-> "match-result", kind |-> "line-match", line |-> LineNumber(n), text |-> hl,
     details |-> details]

NoMatchBlock(n, line) ==
    [class |-> "no-match", kind |-> "line-no-match", line |-> LineNumber(n), text |-> Escape(line)]

\* variant: >= in place of >
NeedsEllipsisAtLimit(str) == Len(str) >= PreviewLimit

\* len(str(all_matches)) > 200
NeedsEllipsis(str) == Len(str) > PreviewLimit

AllMatchesBlock(items) ==
    [class |-> "group-info", kind |-> "all-matches", count |-> Len(items),
     preview  |-> Escape(Take(StrList(items), PreviewLimit)),
     ellipsis |-> NeedsEllipsis(StrList(items))]

ErrorBlock(e) ==
    [class |-> "no-match", kind |-> "error",
     label |-> IF e.kind = "re.error" THEN "Regex Error" ELSE "Error",
     message |-> Escape(e.msg)]

\* variant: results_html += in the except clauses
HandlerAppends(old, e) == Append(old, ErrorBlock(e))

\* what an except clause does to results_html
HandlerResult(old, e) == <<ErrorBlock(e)>>

\* variant: the block rendered without the guard
ShowAlways(items) == TRUE

\* if all_matches:
ShowAllMatches(items) == Len(items) > 0

\* the text handed to findall
FindAllText(raw) == raw

\* ------------------------------------------------------------------ inputs
ShortTexts == SeqsUpTo(MaxLen)

\* the matches of `a` (five characters each in str(all_matches)) fill
\* exactly PreviewLimit characters, and one match more
LongTexts == {Rep("a", PreviewLimit \div 5), Rep("a", PreviewLimit \div 5 + 1)}

NoneTexts == {NoneText, NoneText \o <<"a">>}

Inputs ==
    (PatternSources \X ShortTexts)
        \cup ({"a"} \X LongTexts)
        \cup ({"(None)|(a)"} \X NoneTexts)

ExcKinds == {"re.error", "Exception"}
ExcMessages == {<<"e", "r", "r">>, <<"<", "&">>}

NoPattern == [ok |-> FALSE, root |-> << >>, ngroups |-> 0, names |-> << >>, msg |-> << >>]
NoExc == [kind |-> "none", msg |-> << >>]

\* ------------------------------------------------------------------- state
VARIABLES
    pattern,           \* the pattern source
    test_input,        \* the test text as read
    pc,                \* "compile", "split", "line", "walk", "except", "return"
    compiled_pattern,
    test_lines,
    i,                 \* 1-based number of the line being scanned
    matches,           \* list(compiled_pattern.finditer(line))
    k,                 \* index in matches of the span the walk is at
    highlighted_line,
    last_idx,
    all_matches,
    results_html,      \* the blocks appended so far
    exc                \* the exception being handled

vars == <<pattern, test_input, pc, compiled_pattern, test_lines, i, matches, k,
          highlighted_line, last_idx, all_matches, results_html, exc>>

Init ==
    /\ \E inp \in Inputs : pattern = inp[1] /\ test_input = inp[2]
    /\ pc = "compile"
    /\ compiled_pattern = NoPattern
    /\ test_lines = << >>
    /\ i = 0
    /\ matches = << >>
    /\ k = 0
    /\ highlighted_line = << >>
    /\ last_idx = 0
    /\ all_matches = << >>
    /\ results_html = << >>
    /\ exc = NoExc

\* compiled_pattern = re.compile(pattern, re.MULTILINE)
CompilePattern ==
    /\ pc = "compile"
    /\ LET cp == Compile(pattern)
       IN  IF cp.ok
           THEN /\ compiled_pattern' = cp
                /\ pc' = "split"
                /\ exc' = exc
           ELSE /\ exc' = [kind |-> "re.error", msg |-> cp.msg]
                /\ pc' = "except"
                /\ compiled_pattern' = compiled_pattern
    /\ UNCHANGED <<pattern, test_input, test_lines, i, matches, k, highlighted_line,
                   last_idx, all_matches, results_html>>

\* test_lines = test_input.strip().split('\n')
SplitLines ==
    /\ pc = "split"
    /\ test_lines' = Split(Strip(test_input))
    /\ i' = 1
    /\ pc' = "line"
    /\ UNCHANGED <<pattern, test_input, compiled_pattern, matches, k, highlighted_line,
                   last_idx, all_matches, results_html, exc>>

\* top of the loop body: matches = list(finditer(line)); the else branch
\* renders a line without a match
ScanLine ==
    /\ pc = "line"
    /\ i <= Len(test_lines)
    /\ LET line == test_lines[i]
           ms   == FindIter(compiled_pattern, line)
       IN  /\ matches' = ms
           /\ IF ms # << >>
              THEN /\ highlighted_line' = << >>
                   /\ last_idx' = 0
                   /\ k' = 1
                   /\ pc' = "walk"
                   /\ UNCHANGED <<i, results_html>>
              ELSE /\ results_html' = Append(results_html, NoMatchBlock(i, line))
                   /\ i' = i + 1
                   /\ UNCHANGED <<pc, highlighted_line, last_idx, k>>
    /\ UNCHANGED <<pattern, test_input, compiled_pattern, test_lines, all_matches, exc>>

\* one iteration of `for m in matches`
WalkStep ==
    /\ pc = "walk"
    /\ k <= Len(matches)
    /\ highlighted_line' = WalkAppend(highlighted_line, test_lines[i], last_idx, matches[k])
    /\ last_idx' = WalkLastIdx(matches[k])
    /\ k' = k + 1
    /\ UNCHANGED <<pattern, test_input, pc, compiled_pattern, test_lines, i, matches,
                   all_matches, results_html, exc>>

\* after the walk: the remainder, then the block of the line with the
\* details of every match
RenderLine ==
    /\ pc = "walk"
    /\ k > Len(matches)
    /\ LET line == test_lines[i]
           hl   == WalkRest(highlighted_line, line, last_idx)
       IN  /\ highlighted_line' = hl
           /\ results_html' =
                 Append(results_html,
                        MatchBlock(i, hl, [n \in 1..Len(matches) |->
                                              Detail(compiled_pattern, line, matches, n)]))
    /\ i' = i + 1
    /\ pc' = "line"
    /\ UNCHANGED <<pattern, test_input, compiled_pattern, test_lines, matches, k, last_idx,
                   all_matches, exc>>

\* all_matches = compiled_pattern.findall(test_input) and its block
FindAllMatches ==
    /\ pc = "line"
    /\ i > Len(test_lines)
    /\ LET items == FindAll(compiled_pattern, FindAllText(test_input))
       IN  /\ all_matches' = items
           /\ results_html' = IF ShowAllMatches(items)
                               THEN Append(results_html, AllMatchesBlock(items))
                               ELSE results_html
    /\ pc' = "return"
    /\ UNCHANGED <<pattern, test_input, compiled_pattern, test_lines, i, matches, k,
                   highlighted_line, last_idx, exc>>

\* an exception raised inside the try block while scanning or rendering
Raise ==
    /\ pc \in {"line", "walk"}
    /\ \E kind \in ExcKinds, msg \in ExcMessages : exc' = [kind |-> kind, msg |-> msg]
    /\ pc' = "except"
    /\ UNCHANGED <<pattern, test_input, compiled_pattern, test_lines, i, matches, k,
                   highlighted_line, last_idx, all_matches, results_html>>

\* except re.error / except Exception
Handle ==
    /\ pc = "except"
    /\ results_html' = HandlerResult(results_html, exc)
    /\ pc' = "return"
    /\ UNCHANGED <<pattern, test_input, compiled_pattern, test_lines, i, matches, k,
                   highlighted_line, last_idx, all_matches, exc>>

Next ==
    \/ CompilePattern
    \/ SplitLines
    \/ ScanLine
    \/ WalkStep
    \/ RenderLine
    \/ FindAllMatches
    \/ Raise
    \/ Handle

Spec == Init /\ [][Next]_vars

\* -------------------------------------------------------------- properties
Returned == pc = "return"
Failed == exc.kind # "none"
ReturnedReport == Returned /\ ~Failed

BlocksOfKind(kind) == {n \in 1..Len(results_html) : results_html[n].kind = kind}

\* the line a line block reports, and the matches finditer finds on it
LineOf(b) == test_lines[b.line]
MatchesOf(b) == FindIter(compiled_pattern, LineOf(b))

\* a rendered text with the highlight markers removed
StripMarkers(hl) == SelectSeq(hl, LAMBDA tok : tok # MarkOpen /\ tok # MarkClose)

Count(hl, tok) == Cardinality({n \in 1..Len(hl) : hl[n] = tok})

\* C1: when compilation fails or an exception is raised during the line
\* scan or the aggregate scan, the call still returns, and what it returns
\* is exactly one error block with the kind and the escaped message of the
\* exception; nothing rendered before the failure remains.
C1_ErrorIsTheOnlyBlock ==
    /\ pc = "except" => ENABLED Handle
    /\ (Returned /\ Failed) =>
          /\ Len(results_html) = 1
          /\ results_html[1].kind = "error"
          /\ results_html[1].label = (IF exc.kind = "re.error" THEN "Regex Error" ELSE "Error")
          /\ results_html[1].message = Escape(exc.msg)
          /\ BlocksOfKind("line-match") = {}
          /\ BlocksOfKind("line-no-match") = {}
          /\ BlocksOfKind("all-matches") = {}

\* a failure after the first line was rendered with a match
C1_Witness ==
    /\ Returned /\ Failed
    /\ i > 1
    /\ Len(FindIter(compiled_pattern, test_lines[1])) > 0

\* C2: for every line with a match, the highlighted line without its
\* markers is the escaped line, and every match sits in one marker pair.
C2_HighlightCoversLine ==
    \A n \in BlocksOfKind("line-match") :
        LET b == results_html[n]
        IN  /\ StripMarkers(b.text) = Escape(LineOf(b))
            /\ Count(b.text, MarkOpen) = Len(MatchesOf(b))
            /\ Count(b.text, MarkClose) = Len(MatchesOf(b))

\* a rendered line with two matches, text between and after them, and a
\* character that escaping changes
C2_Witness ==
    \E n \in BlocksOfKind("line-match") :
        LET b  == results_html[n]
            ms == MatchesOf(b)
        IN  /\ Len(ms) = 2
            /\ ms[1].e < ms[2].s
            /\ ms[2].e < Len(LineOf(b))
            /\ Contains(LineOf(b), "<")

\* C3: in the detail of a match, a group that did not participate renders
\* as None and not as the empty text, and a group that captured the empty
\* string renders as the empty text and not as None; numbered and named.
C3_AbsentNoneEmptyEmpty ==
    \A n \in BlocksOfKind("line-match") :
        LET b  == results_html[n]
            ms == MatchesOf(b)
            Ok(g, text) ==
                /\ ~g.present => text = NoneText /\ text # << >>
                /\ (g.present /\ g.val = << >>) => text = << >> /\ text # NoneText
        IN  /\ Len(b.details) = Len(ms)
            /\ \A m \in 1..Len(ms) :
                  /\ Len(b.details[m].groups) = compiled_pattern.ngroups
                  /\ \A j \in 1..compiled_pattern.ngroups :
                        Ok(ms[m].g[j], b.details[m].groups[j].text)
                  /\ Len(b.details[m].named) = Len(compiled_pattern.names)
                  /\ \A x \in 1..Len(compiled_pattern.names) :
                        /\ b.details[m].named[x].label = compiled_pattern.names[x][1]
                        /\ Ok(ms[m].g[compiled_pattern.names[x][2]],
                              b.details[m].named[x].text)

\* one rendered match with an empty capture and a group that is absent,
\* both of them named groups
C3_Witness ==
    \E n \in BlocksOfKind("line-match") :
        LET ms == MatchesOf(results_html[n])
        IN  \E m \in 1..Len(ms) :
              /\ Len(compiled_pattern.names) = 2
              /\ ms[m].g[1].present /\ ms[m].g[1].val = << >>
              /\ ~ms[m].g[2].present

\* C4: the lines scanned are the test text with only its trailing
\* whitespace removed, split on newlines: leading whitespace and leading
\* blank lines are kept.
C4_OnlyTrailingTrimmed ==
    pc \in {"line", "walk", "return"} /\ ~Failed =>
        test_lines = Split(RStrip(test_input))

\* C5: the find-all pass runs over the text the reported lines were split
\* from, so whitespace the trim removed contributes no match.
C5_AggregateOverTrimmedText ==
    ReturnedReport =>
        all_matches = FindAll(compiled_pattern, JoinLines(test_lines))

\* C6: the preview is the escaped first PreviewLimit characters of
\* str(all_matches), the ellipsis is there exactly when str(all_matches) is
\* longer, and the count is the full number of results.
C6_PreviewBounded ==
    \A n \in BlocksOfKind("all-matches") :
        LET b   == results_html[n]
            str == StrList(all_matches)
            cut == IF Len(str) <= PreviewLimit THEN Len(str) ELSE PreviewLimit
        IN  /\ b.preview = Escape([x \in 1..cut |-> str[x]])
            /\ b.ellipsis <=> Len(str) > PreviewLimit
            /\ b.count = Len(all_matches)

\* a truncated preview: more results than fit, all of them counted
C6_Witness ==
    \E n \in BlocksOfKind("all-matches") :
        /\ results_html[n].ellipsis
        /\ Len(StrList(all_matches)) > PreviewLimit
        /\ results_html[n].count = Len(test_input)

\* C7: in a report that is not an error the all-matches block is there
\* exactly when findall returned a result, and with or without it every
\* line has its report.
C7_AggregateIffResults ==
    ReturnedReport =>
        /\ (BlocksOfKind("all-matches") # {}) <=> (Len(all_matches) > 0)
        /\ Cardinality(BlocksOfKind("line-match") \cup BlocksOfKind("line-no-match"))
              = Len(test_lines)

\* no result at all: no all-matches block, the lines are all reported
C7_Witness ==
    /\ ReturnedReport
    /\ Len(all_matches) = 0
    /\ Len(test_lines) > 1
    /\ Len(results_html) = Len(test_lines)

\* C8: the spans handed to the walk are sorted by start and do not overlap,
\* and at every step of the walk last_idx is at most the start of the
\* current span and at most the length of the line.
C8_SpansOrdered ==
    pc = "walk" =>
        LET len == Len(test_lines[i])
        IN  /\ \A a, b \in 1..Len(matches) :
                  a < b => matches[a].s <= matches[b].s /\ matches[a].e <= matches[b].s
            /\ \A a \in 1..Len(matches) :
                  0 <= matches[a].s /\ matches[a].s <= matches[a].e /\ matches[a].e <= len
            /\ last_idx <= len
            /\ k <= Len(matches) => last_idx <= matches[k].s

\* the walk stands at an empty match right after a match of one character
\* or more
C8_Witness ==
    /\ pc = "walk"
    /\ k > 1 /\ k <= Len(matches)
    /\ last_idx > 0
    /\ matches[k].s = last_idx
    /\ matches[k].e = last_idx

\* C9: in a report that is not an error every line, an empty one too, has
\* exactly one line report; the reports are in line order, numbered 1..n,
\* and the all-matches block, when there is one, is last.
C9_OneReportPerLine ==
    /\ pc = "line" /\ ~Failed => Len(results_html) = i - 1
    /\ ReturnedReport =>
          LET n == Len(test_lines)
          IN  /\ Len(results_html) \in {n, n + 1}
              /\ \A j \in 1..n :
                    /\ results_html[j].kind \in {"line-match", "line-no-match"}
                    /\ results_html[j].line = j
              /\ Len(results_html) = n + 1 => results_html[n + 1].kind = "all-matches"

\* three lines, the middle one empty, with the all-matches block after them
C9_Witness ==
    /\ ReturnedReport
    /\ Len(test_lines) = 3
    /\ test_lines[2] = << >>
    /\ Len(results_html) = 4

\* C10: a group that did not participate never renders like a group that
\* captured text.
C10_AbsentRendersApart ==
    \A n1, n2 \in BlocksOfKind("line-match") :
        LET ms1 == MatchesOf(results_html[n1])
            ms2 == MatchesOf(results_html[n2])
        IN  \A m1 \in 1..Len(ms1), m2 \in 1..Len(ms2) :
              \A j1, j2 \in 1..compiled_pattern.ngroups :
                 (~ms1[m1].g[j1].present /\ ms2[m2].g[j2].present) =>
                     results_html[n1].details[m1].groups[j1].text
                         # results_html[n2].details[m2].groups[j2].text

====
